---- MODULE Spec2Model ----
(***************************************************************************)
(* Model of byteps/torch/ops.cc: the asynchronous push-pull dispatcher     *)
(* (DoPushPull with its completion lambda), PollHandle and WaitAndClear,   *)
(* running against the handle manager and the engine of byteps/common.     *)
(* The handle manager and the engine are declared in headers that ops.cc   *)
(* includes; their behaviour is taken from the interface contract.         *)
(***************************************************************************)
EXTENDS Integers, Sequences, FiniteSets, TLC

\* ------------------------------------------------------------------ bounds
MaxHandle == 2

Callers == {"t1", "t2"}
Buffers == {"x", "y", "z"}
EngineResults == {<<-7, 8>>}

\* engine configurations explored: a single-node job of 2 workers and a
\* distributed job of 4, seen from the root and from a non-root worker, and an
\* engine that has not been initialized
EngineConfigs ==
    {[initialized |-> TRUE, isRoot |-> r, isDistributed |-> d,
      byteps_size |-> IF d THEN 4 ELSE 2] : r \in BOOLEAN, d \in BOOLEAN}
    \cup {[initialized |-> FALSE, isRoot |-> TRUE, isDistributed |-> FALSE,
           byteps_size |-> 2]}

\* element count of each caller-owned buffer (TorchTensor::size)
BufLen == [b \in Buffers |-> IF b = "z" THEN 1 ELSE 2]

\* the submissions a caller makes: in place and into a second buffer, with and
\* without averaging, labelled and unlabelled, and one label used with two sizes
Call(tensor, output, average, name) ==
    [tensor |-> tensor, output |-> output, average |-> average, name |-> name]
Calls ==
    {Call("x", "x", 1, "grad1"), Call("y", "y", 0, "grad1"), Call("z", "z", 1, "grad1"),
     Call("x", "y", 1, ""), Call("x", "y", 0, "")}

\* ------------------------------------------------------------- status values
OK == "OK"
Pending == "pending"
NetworkError == "NetworkError"
EnqueueRejected == "EnqueueRejected"
NotInitialized == "NotInitialized"
RegistrationFailure == "RegistrationFailure"
UnknownHandle == "UnknownHandle"
ReleasePending == "ReleasePending"

\* outcomes the engine hands to the completion continuation
AsyncStatuses == {OK, NetworkError}
\* outcomes EnqueueTensor returns synchronously
EnqueueStatuses == {OK, EnqueueRejected}

VARIABLES
    initialized,    \* common::CheckInitialized is OK
    isRoot,         \* common::IsRoot()
    isDistributed,  \* common::IsDistributedJob()
    byteps_size,    \* byteps_size()
    last_handle,    \* HandleManager: last id handed out
    results,        \* HandleManager: handle -> Pending or stored outcome
    contexts,       \* engine registration table: tensor name -> size
    tasks,          \* operations accepted by EnqueueTensor, by handle
    data,           \* contents of the caller-owned buffers
    pc,             \* position of every caller thread
    loc,            \* locals of the call a caller thread is in
    ret,            \* what the finished call returned or threw
    fatal           \* HandleManager: handles on which a MarkDone was rejected

vars == <<initialized, isRoot, isDistributed, byteps_size, last_handle,
          results, contexts, tasks, data, pc, loc, ret, fatal>>

engineCfg == <<initialized, isRoot, isDistributed, byteps_size>>

\* ------------------------------------------------------------------ helpers
Put(f, k, v) == [x \in DOMAIN f \cup {k} |-> IF x = k THEN v ELSE f[x]]
Drop(f, k) == [x \in DOMAIN f \ {k} |-> f[x]]
Empty == [x \in {} |-> 0]

\* at::Tensor::div_ on an integer tensor: C++ division, truncating toward zero
TruncDiv(a, b) == IF a >= 0 THEN a \div b ELSE -((-a) \div b)
DivAll(s, n) == [i \in DOMAIN s |-> TruncDiv(s[i], n)]

\* ------------------------------------------------------------ ops.cc helpers
\* slip: the handle is appended to a caller-supplied label as well
GetOpName_LabelWithHandle(prefix, name, handle) ==
    IF name # "" THEN prefix \o "." \o name \o "." \o ToString(handle)
    ELSE prefix \o ".noname." \o ToString(handle)

GetOpName(prefix, name, handle) ==
    IF name # "" THEN prefix \o "." \o name
    ELSE prefix \o ".noname." \o ToString(handle)

\* std::string tensor_name = GetOpName("byteps", name.c_str(), 0);
TensorName(name, handle) == GetOpName("byteps", name, 0)

\* slip: the two copy stages of the distributed plan change places
QueueList_CopiesSwapped(root, distributed) ==
    IF root
    THEN <<"REDUCE">>
         \o (IF distributed THEN <<"COPYH2D", "PUSH", "PULL", "COPYD2H">> ELSE <<>>)
         \o <<"BROADCAST">>
    ELSE <<"COORDINATE_REDUCE", "REDUCE", "COORDINATE_BROADCAST", "BROADCAST">>

QueueList(root, distributed) ==
    IF root
    THEN <<"REDUCE">>
         \o (IF distributed THEN <<"COPYD2H", "PUSH", "PULL", "COPYH2D">> ELSE <<>>)
         \o <<"BROADCAST">>
    ELSE <<"COORDINATE_REDUCE", "REDUCE", "COORDINATE_BROADCAST", "BROADCAST">>

\* ------------------------------------------------------------ handle manager
HM_Known(res, h) == h \in DOMAIN res
HM_AllocateHandle(res, h) == Put(res, h, Pending)
HM_MarkDoneRejected(res, h) == ~(HM_Known(res, h) /\ res[h] = Pending)

\* slip: MarkDone stores whatever it is given
HM_MarkDone_Overwrites(res, h, status) == Put(res, h, status)

HM_MarkDone(res, h, status) ==
    IF HM_MarkDoneRejected(res, h) THEN res ELSE Put(res, h, status)
HM_PollHandle(res, h) == res[h] # Pending
HM_ReleaseHandle(res, h) == Drop(res, h)

\* ------------------------------------------------------------------- engine
IsTensorInitialized(ctx, name, size) == name \in DOMAIN ctx /\ ctx[name] = size
InitTensorAccepts(ctx, name, size) == name \notin DOMAIN ctx \/ ctx[name] = size
InitTensor(ctx, name, size) == Put(ctx, name, size)

\* ------------------------------------------------------------ caller threads
NoLoc == [handle |-> 0, tensor |-> "", output |-> "", average |-> 0, name |-> "",
          enqueue_result |-> ""]
NoRet == [op |-> "", arg |-> 0, kind |-> "none", val |-> ""]
Return(op, arg, val) == [op |-> op, arg |-> arg, kind |-> "return", val |-> val]
Throw(op, arg, val) == [op |-> op, arg |-> arg, kind |-> "throw", val |-> val]

InDoPushPull(t) == pc[t] \in {"is_init", "init", "enqueue", "return"}

\* buffers lent to an operation that is being submitted or whose handle is live
InUse ==
    UNION {{loc[t].tensor, loc[t].output} : t \in {u \in Callers : InDoPushPull(u)}}
    \cup UNION {{tasks[h].tensor, tasks[h].output} :
                  h \in {k \in DOMAIN tasks : k \in DOMAIN results}}

Init ==
    /\ \E c \in EngineConfigs :
          /\ initialized = c.initialized
          /\ isRoot = c.isRoot
          /\ isDistributed = c.isDistributed
          /\ byteps_size = c.byteps_size
    /\ last_handle = 0
    /\ results = Empty
    /\ contexts = Empty
    /\ tasks = Empty
    /\ data = [b \in Buffers |-> IF BufLen[b] = 1 THEN <<9>> ELSE <<9, -6>>]
    /\ pc = [t \in Callers |-> "idle"]
    /\ loc = [t \in Callers |-> NoLoc]
    /\ ret = [t \in Callers |-> NoRet]
    /\ fatal = {}

\* slip: the registry entry is not created before the operation is submitted
HandleAllocated_Never(init) == FALSE

\* slip: the handle is allocated ahead of the initialization check
HandleAllocated_Always(init) == TRUE

\* ops.cc:55-57  AllocateHandle is reached only when ThrowIfError did not throw
HandleAllocated(init) == init

\* ops.cc:55-61  ThrowIfError(CheckInitialized()); AllocateHandle(); wrap tensors
DoPushPull_Begin(t, c) ==
    /\ pc[t] = "idle"
    /\ {c.tensor, c.output} \cap InUse = {}
    /\ HandleAllocated(initialized) => last_handle < MaxHandle
    /\ last_handle' = IF HandleAllocated(initialized) THEN last_handle + 1
                       ELSE last_handle
    /\ results' = IF HandleAllocated(initialized)
                   THEN HM_AllocateHandle(results, last_handle + 1) ELSE results
    /\ IF ~initialized
       THEN /\ pc' = [pc EXCEPT ![t] = "done"]
            /\ ret' = [ret EXCEPT ![t] = Throw("DoPushPull", 0, NotInitialized)]
            /\ UNCHANGED loc
       ELSE /\ loc' = [loc EXCEPT ![t] = [handle |-> last_handle + 1, tensor |-> c.tensor,
                                          output |-> c.output, average |-> c.average,
                                          name |-> c.name, enqueue_result |-> ""]]
            /\ pc' = [pc EXCEPT ![t] = "is_init"]
            /\ UNCHANGED ret
    /\ UNCHANGED <<engineCfg, fatal, contexts, tasks, data>>

\* slip: the registration branch is never taken
AfterInitCheck_Skip(isInit) == "enqueue"

\* ops.cc:68  if (!common::IsTensorInitialized(tensor_name, size))
AfterInitCheck(isInit) == IF isInit THEN "enqueue" ELSE "init"

DoPushPull_IsTensorInitialized(t) ==
    /\ pc[t] = "is_init"
    /\ pc' = [pc EXCEPT ![t] =
                AfterInitCheck(IsTensorInitialized(contexts,
                                                   TensorName(loc[t].name, loc[t].handle),
                                                   BufLen[loc[t].tensor]))]
    /\ UNCHANGED <<engineCfg, fatal, last_handle, results, contexts, tasks, data, loc, ret>>

\* slip: a rejected registration is swallowed and the submission goes on
DoPushPull_InitTensor_IgnoresRejection(t) ==
    LET name == TensorName(loc[t].name, loc[t].handle)
        size == BufLen[loc[t].tensor]
    IN  /\ pc[t] = "init"
        /\ contexts' = IF InitTensorAccepts(contexts, name, size)
                       THEN InitTensor(contexts, name, size) ELSE contexts
        /\ pc' = [pc EXCEPT ![t] = "enqueue"]
        /\ UNCHANGED <<engineCfg, fatal, last_handle, results, tasks, data, ret, loc>>

\* ops.cc:70-73  the blocking common::InitTensor; a rejected registration throws
DoPushPull_InitTensor(t) ==
    LET name == TensorName(loc[t].name, loc[t].handle)
        size == BufLen[loc[t].tensor]
    IN  /\ pc[t] = "init"
        /\ IF InitTensorAccepts(contexts, name, size)
           THEN /\ contexts' = InitTensor(contexts, name, size)
                /\ pc' = [pc EXCEPT ![t] = "enqueue"]
                /\ UNCHANGED <<ret, loc>>
           ELSE /\ pc' = [pc EXCEPT ![t] = "done"]
                /\ ret' = [ret EXCEPT ![t] =
                             Throw("DoPushPull", loc[t].handle, RegistrationFailure)]
                /\ loc' = [loc EXCEPT ![t] = NoLoc]
                /\ UNCHANGED contexts
        /\ UNCHANGED <<engineCfg, fatal, last_handle, results, tasks, data>>

\* slip: the lambda is given the literal 0 in place of the allocated handle
NewTask_HandleZero(l, queue_list, registered) ==
    [handle |-> 0, average |-> l.average, tensor |-> l.tensor,
     output |-> l.output, tensor_name |-> TensorName(l.name, l.handle),
     queue_list |-> queue_list,
     label |-> l.name, registered |-> registered,
     phase |-> "queued", cb |-> 0, status |-> "", produced |-> <<>>,
     before |-> <<>>, divs |-> 0, marked |-> FALSE]

\* the operation as EnqueueTensor receives it; the lambda captures
\* [handle, average, tensor]
NewTask(l, queue_list, registered) ==
    [handle |-> l.handle, average |-> l.average, tensor |-> l.tensor,
     output |-> l.output, tensor_name |-> TensorName(l.name, l.handle),
     queue_list |-> queue_list,
     label |-> l.name, registered |-> registered,
     phase |-> "queued", cb |-> 0, status |-> "", produced |-> <<>>,
     before |-> <<>>, divs |-> 0, marked |-> FALSE]

\* ops.cc:76-105  GetContextFromName, queue_list, common::EnqueueTensor
DoPushPull_Enqueue(t, result) ==
    /\ pc[t] = "enqueue"
    /\ tasks' = IF result = OK
                THEN Put(tasks, loc[t].handle,
                         NewTask(loc[t], QueueList(isRoot, isDistributed),
                                 TensorName(loc[t].name, loc[t].handle)
                                     \in DOMAIN contexts))
                ELSE tasks
    /\ loc' = [loc EXCEPT ![t].enqueue_result = result]
    /\ pc' = [pc EXCEPT ![t] = "return"]
    /\ UNCHANGED <<engineCfg, fatal, last_handle, results, contexts, data, ret>>

\* slip: the literal 0 is returned in place of the allocated handle
DoPushPull_Return_LiteralZero(t) ==
    /\ pc[t] = "return"
    /\ ret' = [ret EXCEPT ![t] =
                 IF loc[t].enqueue_result # OK
                 THEN Throw("DoPushPull", loc[t].handle, loc[t].enqueue_result)
                 ELSE Return("DoPushPull", loc[t].handle, 0)]
    /\ pc' = [pc EXCEPT ![t] = "done"]
    /\ loc' = [loc EXCEPT ![t] = NoLoc]
    /\ UNCHANGED <<engineCfg, fatal, last_handle, results, contexts, tasks, data>>

\* ops.cc:107-109  ThrowIfError(enqueue_result); return handle;
DoPushPull_Return(t) ==
    /\ pc[t] = "return"
    /\ ret' = [ret EXCEPT ![t] =
                 IF loc[t].enqueue_result # OK
                 THEN Throw("DoPushPull", loc[t].handle, loc[t].enqueue_result)
                 ELSE Return("DoPushPull", loc[t].handle, loc[t].handle)]
    /\ pc' = [pc EXCEPT ![t] = "done"]
    /\ loc' = [loc EXCEPT ![t] = NoLoc]
    /\ UNCHANGED <<engineCfg, fatal, last_handle, results, contexts, tasks, data>>

\* the engine runs the stage plan of an accepted operation, leaves its result
\* in the output buffer and decides the status it will report
Engine_Run(h, result, status) ==
    /\ h \in DOMAIN tasks
    /\ tasks[h].phase = "queued"
    /\ LET out == SubSeq(result, 1, BufLen[tasks[h].output])
           d == [data EXCEPT ![tasks[h].output] = out]
       IN  /\ data' = d
           /\ tasks' = [tasks EXCEPT ![h].phase = "callback", ![h].status = status,
                                     ![h].produced = out,
                                     ![h].before = d[tasks[h].tensor]]
    /\ UNCHANGED <<engineCfg, fatal, last_handle, results, contexts, pc, loc, ret>>

\* slip: the lambda marks the handle done ahead of the division
CallbackSteps_MarkDoneFirst == <<"MarkDone", "average">>

\* ops.cc:101-104  the statements of the completion lambda, in program order
CallbackSteps == <<"average", "MarkDone">>

AdvanceCallback(task) ==
    [task EXCEPT !.cb = @ + 1,
                 !.phase = IF task.cb + 1 = Len(CallbackSteps) THEN "finished" ELSE @]

\* slip: the division is skipped when the engine reports a failure
Finalize_OnlyOnSuccess(d, task, n) ==
    IF task.average # 0 /\ task.status = OK
    THEN [d EXCEPT ![task.tensor] = DivAll(@, n)] ELSE d

\* ops.cc:101-103  if (average) { tensor.div_(byteps_size()); }
Finalize(d, task, n) ==
    IF task.average # 0 THEN [d EXCEPT ![task.tensor] = DivAll(@, n)] ELSE d

Callback_Average(h) ==
    /\ h \in DOMAIN tasks
    /\ tasks[h].phase = "callback"
    /\ CallbackSteps[tasks[h].cb + 1] = "average"
    /\ data' = Finalize(data, tasks[h], byteps_size)
    /\ tasks' = [tasks EXCEPT ![h] =
                   AdvanceCallback([tasks[h] EXCEPT !.divs =
                                      IF tasks[h].average # 0 THEN @ + 1 ELSE @])]
    /\ UNCHANGED <<engineCfg, fatal, last_handle, results, contexts, pc, loc, ret>>

\* ops.cc:104  handle_manager.MarkDone(handle, status);
Callback_MarkDone(h) ==
    /\ h \in DOMAIN tasks
    /\ tasks[h].phase = "callback"
    /\ CallbackSteps[tasks[h].cb + 1] = "MarkDone"
    /\ results' = HM_MarkDone(results, tasks[h].handle, tasks[h].status)
    /\ fatal' = IF HM_MarkDoneRejected(results, tasks[h].handle)
                THEN fatal \cup {tasks[h].handle} ELSE fatal
    /\ tasks' = [tasks EXCEPT ![h] = AdvanceCallback([tasks[h] EXCEPT !.marked = TRUE])]
    /\ UNCHANGED <<engineCfg, last_handle, contexts, data, pc, loc, ret>>

\* slip: the poll raises a stored failure
PollHandle_ThrowsStored(res, h) ==
    IF ~HM_Known(res, h) THEN Throw("PollHandle", h, UnknownHandle)
    ELSE IF res[h] \notin {Pending, OK} THEN Throw("PollHandle", h, res[h])
    ELSE Return("PollHandle", h, IF HM_PollHandle(res, h) THEN 1 ELSE 0)

\* ops.cc:112  int PollHandle(int handle)
PollHandle(res, h) ==
    IF ~HM_Known(res, h) THEN Throw("PollHandle", h, UnknownHandle)
    ELSE Return("PollHandle", h, IF HM_PollHandle(res, h) THEN 1 ELSE 0)

Poll(t, h) ==
    /\ pc[t] = "idle"
    /\ ret' = [ret EXCEPT ![t] = PollHandle(results, h)]
    /\ pc' = [pc EXCEPT ![t] = "done"]
    /\ UNCHANGED <<engineCfg, fatal, last_handle, results, contexts, tasks, data, loc>>

\* ops.cc:114  a caller enters WaitAndClear(handle)
WaitAndClear_Call(t, h) ==
    /\ pc[t] = "idle"
    /\ loc' = [loc EXCEPT ![t] = [NoLoc EXCEPT !.handle = h]]
    /\ pc' = [pc EXCEPT ![t] = "wac_poll"]
    /\ UNCHANGED <<engineCfg, fatal, last_handle, results, contexts, tasks, data, ret>>

\* slip: the loop goes on sleeping after the poll reported the handle done
WaitAndClear_Poll_KeepsSleeping(t) ==
    /\ pc[t] = "wac_poll"
    /\ IF ~HM_Known(results, loc[t].handle)
       THEN /\ ret' = [ret EXCEPT ![t] =
                         Throw("WaitAndClear", loc[t].handle, UnknownHandle)]
            /\ pc' = [pc EXCEPT ![t] = "done"]
            /\ loc' = [loc EXCEPT ![t] = NoLoc]
       ELSE UNCHANGED <<pc, ret, loc>>
    /\ UNCHANGED <<engineCfg, fatal, last_handle, results, contexts, tasks, data>>

\* slip: the loop is left after the first poll whatever it reported
WaitAndClear_Poll_NoWait(t) ==
    /\ pc[t] = "wac_poll"
    /\ IF ~HM_Known(results, loc[t].handle)
       THEN /\ ret' = [ret EXCEPT ![t] =
                         Throw("WaitAndClear", loc[t].handle, UnknownHandle)]
            /\ pc' = [pc EXCEPT ![t] = "done"]
            /\ loc' = [loc EXCEPT ![t] = NoLoc]
       ELSE /\ pc' = [pc EXCEPT ![t] = "wac_release"]
            /\ UNCHANGED <<ret, loc>>
    /\ UNCHANGED <<engineCfg, fatal, last_handle, results, contexts, tasks, data>>

\* ops.cc:115-117  while (!handle_manager.PollHandle(handle)) sleep
WaitAndClear_Poll(t) ==
    /\ pc[t] = "wac_poll"
    /\ IF ~HM_Known(results, loc[t].handle)
       THEN /\ ret' = [ret EXCEPT ![t] =
                         Throw("WaitAndClear", loc[t].handle, UnknownHandle)]
            /\ pc' = [pc EXCEPT ![t] = "done"]
            /\ loc' = [loc EXCEPT ![t] = NoLoc]
       ELSE /\ pc' = [pc EXCEPT ![t] =
                        IF HM_PollHandle(results, loc[t].handle)
                        THEN "wac_release" ELSE "wac_poll"]
            /\ UNCHANGED <<ret, loc>>
    /\ UNCHANGED <<engineCfg, fatal, last_handle, results, contexts, tasks, data>>

\* slip: a handle that is gone at release time is taken for a success
WaitAndClearOutcome_VoidOnUnknown(res, h) ==
    IF ~HM_Known(res, h)
    THEN [results |-> res, ret |-> Return("WaitAndClear", h, "void")]
    ELSE IF res[h] = Pending
    THEN [results |-> res, ret |-> Throw("WaitAndClear", h, ReleasePending)]
    ELSE [results |-> HM_ReleaseHandle(res, h),
          ret |-> IF res[h] # OK THEN Throw("WaitAndClear", h, res[h])
                  ELSE Return("WaitAndClear", h, "void")]

\* slip: a stored failure is thrown ahead of the release
WaitAndClearOutcome_ThrowFirst(res, h) ==
    IF ~HM_Known(res, h)
    THEN [results |-> res, ret |-> Throw("WaitAndClear", h, UnknownHandle)]
    ELSE IF res[h] = Pending
    THEN [results |-> res, ret |-> Throw("WaitAndClear", h, ReleasePending)]
    ELSE IF res[h] # OK
    THEN [results |-> res, ret |-> Throw("WaitAndClear", h, res[h])]
    ELSE [results |-> HM_ReleaseHandle(res, h),
          ret |-> Return("WaitAndClear", h, "void")]

\* ops.cc:118-119  status = ReleaseHandle(handle); ThrowIfError(*status);
\* the registry after the two statements and what the call hands back
WaitAndClearOutcome(res, h) ==
    IF ~HM_Known(res, h)
    THEN [results |-> res, ret |-> Throw("WaitAndClear", h, UnknownHandle)]
    ELSE IF res[h] = Pending
    THEN [results |-> res, ret |-> Throw("WaitAndClear", h, ReleasePending)]
    ELSE [results |-> HM_ReleaseHandle(res, h),
          ret |-> IF res[h] # OK THEN Throw("WaitAndClear", h, res[h])
                  ELSE Return("WaitAndClear", h, "void")]

WaitAndClear_Release(t) ==
    LET h == loc[t].handle
        out == WaitAndClearOutcome(results, h)
    IN  /\ pc[t] = "wac_release"
        /\ results' = out.results
        /\ ret' = [ret EXCEPT ![t] = out.ret]
        /\ tasks' = IF h \in DOMAIN tasks /\ h \notin DOMAIN out.results
                    THEN Drop(tasks, h) ELSE tasks
        /\ pc' = [pc EXCEPT ![t] = "done"]
        /\ loc' = [loc EXCEPT ![t] = NoLoc]
        /\ UNCHANGED <<engineCfg, fatal, last_handle, contexts, data>>

\* ops.cc:122-141  the binding hands the result or the exception to the caller
Resume(t) ==
    /\ pc[t] = "done"
    /\ pc' = [pc EXCEPT ![t] = "idle"]
    /\ ret' = [ret EXCEPT ![t] = NoRet]
    /\ UNCHANGED <<engineCfg, fatal, last_handle, results, contexts, tasks, data, loc>>

Handles == 1..MaxHandle

Next ==
    \/ \E t \in Callers, c \in Calls : DoPushPull_Begin(t, c)
    \/ \E t \in Callers : DoPushPull_IsTensorInitialized(t)
    \/ \E t \in Callers : DoPushPull_InitTensor(t)
    \/ \E t \in Callers, result \in EnqueueStatuses : DoPushPull_Enqueue(t, result)
    \/ \E t \in Callers : DoPushPull_Return(t)
    \/ \E h \in Handles, result \in EngineResults, status \in AsyncStatuses :
          Engine_Run(h, result, status)
    \/ \E h \in Handles : Callback_Average(h)
    \/ \E h \in Handles : Callback_MarkDone(h)
    \/ \E t \in Callers, h \in Handles : Poll(t, h)
    \/ \E t \in Callers, h \in Handles : WaitAndClear_Call(t, h)
    \/ \E t \in Callers : WaitAndClear_Poll(t)
    \/ \E t \in Callers : WaitAndClear_Release(t)
    \/ \E t \in Callers : Resume(t)

Spec == Init /\ [][Next]_vars

\* the engine invokes a continuation once more: for an operation whose handle
\* is already resolved, or for a handle that is unknown or already released
Callback_Redelivered(h, status) ==
    /\ HM_MarkDoneRejected(results, h)
    /\ data' = IF h \in DOMAIN tasks THEN Finalize(data, tasks[h], byteps_size)
               ELSE data
    /\ results' = HM_MarkDone(results, h, status)
    /\ fatal' = fatal \cup {h}
    /\ UNCHANGED <<engineCfg, last_handle, contexts, tasks, pc, loc, ret>>

\* one caller thread and the engine
NextSolo ==
    \/ \E c \in Calls : DoPushPull_Begin("t1", c)
    \/ DoPushPull_IsTensorInitialized("t1")
    \/ DoPushPull_InitTensor("t1")
    \/ \E result \in EnqueueStatuses : DoPushPull_Enqueue("t1", result)
    \/ DoPushPull_Return("t1")
    \/ \E h \in Handles, result \in EngineResults, status \in AsyncStatuses :
          Engine_Run(h, result, status)
    \/ \E h \in Handles : Callback_Average(h)
    \/ \E h \in Handles : Callback_MarkDone(h)
    \/ \E h \in Handles : Poll("t1", h)
    \/ \E h \in Handles : WaitAndClear_Call("t1", h)
    \/ WaitAndClear_Poll("t1")
    \/ WaitAndClear_Release("t1")
    \/ Resume("t1")

\* a thread inside WaitAndClear keeps running: its poll loop wakes up after
\* every sleep and its release follows the poll that ended the loop
SpecWait ==
    /\ Init /\ [][NextSolo]_vars
    /\ WF_vars(WaitAndClear_Poll("t1"))
    /\ WF_vars(WaitAndClear_Release("t1"))

\* one caller thread, the engine, and the redelivered continuations
NextRedeliver ==
    \/ NextSolo
    \/ \E h \in Handles, status \in AsyncStatuses : Callback_Redelivered(h, status)

SpecRedeliver == Init /\ [][NextRedeliver]_vars

\* ================================================================== claims
Resolved(h) == h \in DOMAIN results /\ results[h] # Pending
AsyncFailures == AsyncStatuses \ {OK}

\* a caller's PollHandle call completes in this step
PollStep(t) == pc[t] = "idle" /\ pc'[t] = "done" /\ ret'[t].op = "PollHandle"

\* C1: when EnqueueTensor fails synchronously, DoPushPull throws that failure
\* and the registry holds no entry for the handle of the failed call.
C1_NoEntryAfterSubmissionFailure ==
    \A t \in Callers :
        (ret[t].op = "DoPushPull" /\ ret[t].kind = "throw"
            /\ ret[t].val = EnqueueRejected)
        => ret[t].arg \notin DOMAIN results

\* C2: a DoPushPull call on an uninitialized engine throws NotInitialized and
\* leaves the handle registry, the registration table and the accepted
\* operations unchanged; no call gets past the check while uninitialized.
C2_UninitializedLeavesNoTrace ==
    [][\A t \in Callers :
         /\ (pc[t] = "idle" /\ pc'[t] = "done" /\ ret'[t].op = "DoPushPull")
              => /\ ~initialized
                 /\ ret'[t] = Throw("DoPushPull", 0, NotInitialized)
         /\ ~initialized
              => /\ last_handle' = last_handle
                 /\ results' = results
                 /\ contexts' = contexts
                 /\ tasks' = tasks]_vars

C2_Witness ==
    \E t \in Callers :
        ret[t] = Throw("DoPushPull", 0, NotInitialized) /\ results = Empty

\* C3: every operation handed to the engine carries exactly the stage plan of
\* its (root, distributed) combination, in order.
C3_StagePlan ==
    \A h \in DOMAIN tasks :
        tasks[h].queue_list =
            IF isRoot /\ ~isDistributed THEN <<"REDUCE", "BROADCAST">>
            ELSE IF isRoot /\ isDistributed
            THEN <<"REDUCE", "COPYD2H", "PUSH", "PULL", "COPYH2D", "BROADCAST">>
            ELSE <<"COORDINATE_REDUCE", "REDUCE", "COORDINATE_BROADCAST", "BROADCAST">>

C3_Witness ==
    \E h \in DOMAIN tasks :
        isRoot /\ isDistributed /\ Len(tasks[h].queue_list) = 6

\* C4: once a handle of an averaging operation is resolved, the OUTPUT buffer
\* holds the engine-produced result divided element-wise by the world size.
C4_OutputAveraged ==
    \A h \in DOMAIN tasks :
        (Resolved(h) /\ tasks[h].average # 0)
        => data[tasks[h].output] = DivAll(tasks[h].produced, byteps_size)

\* C5: a poll of a live handle returns 1 exactly when the continuation of that
\* handle's operation has completed its MarkDone, and a resolved handle stays
\* resolved with the same outcome until it is released.
C5_PollTracksResolve ==
    /\ [][\A t \in Callers :
            (PollStep(t) /\ ret'[t].kind = "return")
            => LET h == ret'[t].arg IN
               /\ ret'[t].val \in {0, 1}
               /\ ret'[t].val = 1
                    <=> (h \in DOMAIN tasks /\ tasks[h].marked)]_vars
    /\ [][\A h \in DOMAIN results :
            results[h] # Pending
            => (h \notin DOMAIN results' \/ results'[h] = results[h])]_vars

C5_Witness ==
    \E t, u \in Callers, h \in DOMAIN tasks :
        /\ ret[t] = Return("PollHandle", h, 1)
        /\ ret[u] = Return("PollHandle", h, 0)

\* C6: the averaging division of an operation runs at most once, not before
\* the engine has reported the stages complete, and has run (exactly once, on
\* every element) in every state where the handle is resolved.
C6_FinalizeOnceBeforeResolve ==
    \A h \in DOMAIN tasks :
        LET k == tasks[h] IN
        /\ k.divs <= 1
        /\ k.phase = "queued" => k.divs = 0
        /\ Resolved(h)
             => /\ k.divs = (IF k.average # 0 THEN 1 ELSE 0)
                /\ k.average # 0 => data[k.tensor] = DivAll(k.before, byteps_size)

C6_Witness ==
    \E h \in DOMAIN tasks :
        /\ Resolved(h) /\ tasks[h].average # 0 /\ tasks[h].divs = 1
        /\ data[tasks[h].tensor] # tasks[h].before

\* C7: an operation submitted without a label is registered and submitted
\* under the identity "byteps.noname.<its own handle id>".
C7_UnlabelledIdentityUsesHandle ==
    \A h \in DOMAIN tasks :
        tasks[h].label = ""
        => tasks[h].tensor_name = "byteps" \o ".noname." \o ToString(h)

\* C8: WaitAndClear on a handle resolved with a failure throws that failure
\* and removes the entry; afterwards PollHandle and WaitAndClear on that id
\* throw UnknownHandle (they neither return a value nor keep waiting), and a
\* released id never comes back.
C8_FailureRaisedAndEntryRemoved ==
    [][\A t \in Callers :
         /\ (pc[t] = "wac_release" /\ pc'[t] = "done"
               /\ Resolved(loc[t].handle) /\ results[loc[t].handle] # OK)
              => /\ ret'[t] = Throw("WaitAndClear", loc[t].handle,
                                   results[loc[t].handle])
                 /\ loc[t].handle \in DOMAIN tasks
                      => ret'[t].val = tasks[loc[t].handle].status
                 /\ loc[t].handle \notin DOMAIN results'
         /\ (PollStep(t) /\ ret'[t].arg \notin DOMAIN results)
              => ret'[t] = Throw("PollHandle", ret'[t].arg, UnknownHandle)
         /\ (pc[t] = "wac_poll" /\ pc'[t] # "wac_poll"
               /\ loc[t].handle \notin DOMAIN results)
              => /\ pc'[t] = "done"
                 /\ ret'[t] = Throw("WaitAndClear", loc[t].handle, UnknownHandle)
         /\ \A h \in 1..last_handle :
               h \notin DOMAIN results => h \notin DOMAIN results']_vars

C8_Witness ==
    \E t, u \in Callers, h \in 1..last_handle :
        /\ ret[t] = Throw("WaitAndClear", h, NetworkError)
        /\ ret[u] = Throw("PollHandle", h, UnknownHandle)

\* C9: a failure reported through the continuation is thrown only by
\* WaitAndClear: DoPushPull still returns the handle and PollHandle returns 1
\* for a handle resolved with a failure.
C9_AsyncFailureOnlyFromWait ==
    /\ [](\A t \in Callers :
            (ret[t].kind = "throw" /\ ret[t].val \in AsyncFailures)
            => ret[t].op = "WaitAndClear")
    /\ [][\A t \in Callers :
            /\ (PollStep(t) /\ Resolved(ret'[t].arg))
                 => ret'[t] = Return("PollHandle", ret'[t].arg, 1)
            /\ (pc[t] = "return" /\ pc'[t] = "done" /\ loc[t].enqueue_result = OK)
                 => ret'[t] = Return("DoPushPull", loc[t].handle, loc[t].handle)]_vars

C9_Witness ==
    \E t, u \in Callers, h \in DOMAIN results :
        /\ results[h] = NetworkError
        /\ ret[t] = Return("PollHandle", h, 1)
        /\ ret[u] = Return("DoPushPull", h, h)

\* C10: whenever an operation is handed to EnqueueTensor, the registration of
\* its tensor identity has already completed, also when callers that share
\* the identity interleave.
C10_RegisteredBeforeEnqueue ==
    /\ \A h \in DOMAIN tasks :
          tasks[h].registered /\ tasks[h].tensor_name \in DOMAIN contexts
    /\ \A t \in Callers :
          pc[t] = "enqueue"
          => TensorName(loc[t].name, loc[t].handle) \in DOMAIN contexts

C10_Witness ==
    \E t, u \in Callers :
        /\ t # u /\ pc[t] = "enqueue" /\ pc[u] = "enqueue"
        /\ TensorName(loc[t].name, loc[t].handle)
             = TensorName(loc[u].name, loc[u].handle)

\* size of the tensor an accepted operation was submitted with
TaskSize(h) == BufLen[tasks[h].tensor]

ReleaseStep(t) == pc[t] = "wac_release" /\ pc'[t] = "done"

\* C12: of the WaitAndClear calls on one handle exactly one takes the stored
\* outcome and removes the entry; any other throws UnknownHandle, hands back
\* no outcome and leaves the registry as it is; a removed id never comes back.
C12_SingleRelease ==
    [][/\ \A t \in Callers :
            ReleaseStep(t)
            => LET h == loc[t].handle IN
               IF Resolved(h)
               THEN /\ ret'[t] = (IF results[h] = OK
                                  THEN Return("WaitAndClear", h, "void")
                                  ELSE Throw("WaitAndClear", h, results[h]))
                    /\ results' = Drop(results, h)
               ELSE /\ ret'[t] = Throw("WaitAndClear", h, UnknownHandle)
                    /\ results' = results
       /\ \A h \in DOMAIN results :
            h \notin DOMAIN results'
            => Cardinality({t \in Callers :
                              ReleaseStep(t) /\ loc[t].handle = h}) = 1
       /\ \A h \in 1..last_handle :
            h \notin DOMAIN results => h \notin DOMAIN results']_vars

C12_Witness ==
    \E t, u \in Callers, h \in 1..last_handle :
        /\ ret[t] = Return("WaitAndClear", h, "void")
        /\ pc[u] = "wac_release" /\ loc[u].handle = h

\* C13: every handle DoPushPull allocates is larger than all handles handed
\* out before and has no entry in the registry; the ids two calls return, or
\* hold while they run, differ.
C13_HandlesDistinct ==
    /\ [][\A t \in Callers :
            /\ (pc[t] = "idle" /\ pc'[t] = "is_init")
                 => /\ loc'[t].handle > last_handle
                    /\ loc'[t].handle = last_handle'
                    /\ loc'[t].handle \notin DOMAIN results
            /\ (pc[t] = "return" /\ pc'[t] = "done" /\ ret'[t].kind = "return")
                 => ret'[t].val = loc[t].handle]_vars
    /\ [](\A t, u \in Callers :
            t # u
            => /\ (InDoPushPull(t) /\ InDoPushPull(u))
                    => loc[t].handle # loc[u].handle
               /\ (ret[t].op = "DoPushPull" /\ ret[t].kind = "return"
                     /\ ret[u].op = "DoPushPull" /\ ret[u].kind = "return")
                    => ret[t].val # ret[u].val)
    /\ [](DOMAIN results \subseteq 1..last_handle)

C13_Witness ==
    \E t, u \in Callers :
        /\ ret[t] = Return("DoPushPull", 1, 1)
        /\ ret[u] = Return("DoPushPull", 2, 2)
        /\ DOMAIN results = {1, 2}

\* C14: a MarkDone on a handle that is resolved, unknown or released is
\* rejected: it changes no stored outcome and adds or removes no entry; an
\* outcome, once stored, is never replaced, and entries appear only pending.
C14_ResolveAtMostOnce ==
    [][/\ \A h \in DOMAIN results :
            results[h] # Pending
            => (h \notin DOMAIN results' \/ results'[h] = results[h])
       /\ \A h \in DOMAIN results' :
            h \notin DOMAIN results => results'[h] = Pending
       /\ fatal' # fatal => results' = results]_vars

C14_Witness ==
    \E h, k \in fatal :
        /\ Resolved(h)
        /\ k \notin DOMAIN results /\ k <= last_handle

\* a caller is inside WaitAndClear(h)
Waiting(t, h) == pc[t] \in {"wac_poll", "wac_release"} /\ loc[t].handle = h

\* C15: a waiter that is the only one on its handle and keeps running leaves
\* WaitAndClear, with the entry removed, once the continuation has resolved
\* the handle; it hands back an outcome only if the continuation has run, and
\* stays in its loop while the handle is pending.
C15_WaitReturnsIffResolved ==
    /\ \A t \in Callers, h \in Handles :
          (Waiting(t, h) /\ Resolved(h))
          ~> (pc[t] = "done" /\ ret[t].op = "WaitAndClear" /\ ret[t].arg = h
                /\ ret[t].val # UnknownHandle /\ h \notin DOMAIN results)
    /\ [][\A t \in Callers, h \in Handles :
            /\ (Waiting(t, h) /\ pc'[t] = "done" /\ ret'[t].val # UnknownHandle)
                 => (h \in DOMAIN tasks /\ tasks[h].marked)
            /\ (Waiting(t, h) /\ h \in DOMAIN results /\ results[h] = Pending)
                 => Waiting(t, h)']_vars

C15_Witness ==
    \E t \in Callers, h \in Handles :
        /\ pc[t] = "done" /\ h \notin DOMAIN results
        /\ ret[t] = Throw("WaitAndClear", h, NetworkError)
        /\ last_handle = MaxHandle

\* C16: an operation submitted with the label "grad1" uses the identity
\* "byteps.grad1" whatever its handle, so operations that share the label
\* share the identity.
C16_LabelledIdentity ==
    /\ \A h \in DOMAIN tasks :
          tasks[h].label # ""
          => tasks[h].tensor_name = "byteps" \o "." \o tasks[h].label
    /\ \A t \in Callers :
          (InDoPushPull(t) /\ loc[t].name = "grad1")
          => TensorName(loc[t].name, loc[t].handle) = "byteps.grad1"

C16_Witness ==
    \E h, k \in DOMAIN tasks :
        /\ h # k
        /\ tasks[h].label = "grad1" /\ tasks[k].label = "grad1"
        /\ tasks[h].tensor_name = "byteps.grad1"
        /\ tasks[k].tensor_name = "byteps.grad1"

\* C17: InitTensor is never called for an identity that is already in the
\* registration table: no two callers both register the same identity.
C17_RegisteredOnce ==
    [][\A t \in Callers :
         (pc[t] = "init" /\ pc'[t] = "enqueue")
         => TensorName(loc[t].name, loc[t].handle) \notin DOMAIN contexts]_vars

\* C18: WaitAndClear reaches its release statement only with a handle that
\* is not pending, and no release is ever attempted on a pending handle: what
\* the release hands to ThrowIfError is a stored outcome.
C18_NoReleaseWhilePending ==
    /\ [](\A t \in Callers :
            /\ pc[t] = "wac_release"
                 => ~(loc[t].handle \in DOMAIN results
                        /\ results[loc[t].handle] = Pending)
            /\ ret[t].op = "WaitAndClear" => ret[t].val # ReleasePending)
    /\ [][\A t \in Callers :
            /\ (pc[t] = "wac_poll" /\ pc'[t] = "wac_release")
                 => Resolved(loc[t].handle)
            /\ (ReleaseStep(t) /\ loc[t].handle \in DOMAIN results)
                 => /\ results[loc[t].handle] \in AsyncStatuses
                    /\ ret'[t].val \in {"void"} \cup AsyncFailures]_vars

C18_Witness ==
    \E t \in Callers :
        /\ pc[t] = "wac_release" /\ Resolved(loc[t].handle)
        /\ \E h \in DOMAIN results : results[h] = Pending

\* C19: from the moment an operation is accepted by the engine until its
\* handle is released the registry has an entry for it, pending until the
\* continuation marks it done; no MarkDone of a continuation is rejected, also
\* when it runs before DoPushPull has returned.
C19_EntryBeforeSubmission ==
    /\ [](\A h \in DOMAIN tasks :
            /\ h \in DOMAIN results
            /\ ~tasks[h].marked => results[h] = Pending)
    /\ [](fatal = {})
    /\ [](\A t \in Callers :
            pc[t] = "enqueue"
            => /\ loc[t].handle \in DOMAIN results
               /\ results[loc[t].handle] = Pending)
    /\ [][\A t \in Callers :
            (PollStep(t) /\ ret'[t].arg \in DOMAIN tasks)
            => ret'[t].kind = "return"]_vars

C19_Witness ==
    \E t \in Callers :
        /\ pc[t] = "return" /\ loc[t].handle \in DOMAIN tasks
        /\ tasks[loc[t].handle].marked /\ Resolved(loc[t].handle)

\* the continuation of operation h runs its averaging statement in this step
AverageStep(h) ==
    /\ h \in DOMAIN tasks /\ h \in DOMAIN tasks'
    /\ tasks[h].cb = 0 /\ tasks'[h].cb = 1

\* C20: the continuation divides the captured tensor by the world size
\* whenever average is set, also when the engine reported a failure, and
\* before that failure is stored; when average is not set it changes no buffer.
C20_AverageRegardlessOfStatus ==
    /\ [][\A h \in Handles :
            AverageStep(h)
            => /\ data' = IF tasks[h].average # 0
                          THEN [data EXCEPT ![tasks[h].tensor] =
                                  DivAll(data[tasks[h].tensor], byteps_size)]
                          ELSE data
               /\ results[h] = Pending]_vars
    /\ [](\A h \in DOMAIN tasks :
            Resolved(h)
            => /\ tasks[h].average # 0
                    => data[tasks[h].tensor] = DivAll(tasks[h].before, byteps_size)
               /\ tasks[h].average = 0
                    => /\ data[tasks[h].tensor] = tasks[h].before
                       /\ data[tasks[h].output] = tasks[h].produced)

C20_Witness ==
    \E h \in DOMAIN tasks :
        /\ Resolved(h) /\ results[h] = NetworkError /\ tasks[h].average # 0
        /\ data[tasks[h].tensor] = DivAll(tasks[h].before, byteps_size)
        /\ data[tasks[h].tensor] # tasks[h].before
====
